---- MODULE Spec2Model ----
(***************************************************************************)
(* go-remote-embed: the manifest-driven run of main (fileInfo building,    *)
(* resolveUniquePaths, per-file materialization, variable naming, writing  *)
(* of the generated source) and the two disambiguators as pure functions.  *)
(*                                                                         *)
(* A Go string is a sequence of one-character strings: "a/x.t" is          *)
(* <<"a", "/", "x", ".", "t">>.                                            *)
(***************************************************************************)
EXTENDS Integers, Sequences, FiniteSets, TLC

\* ------------------------------------------------------------------ bounds
\* longest manifest / input list
MaxFiles == 3
MaxNameLen == 3

\* ------------------------------------------------------- characters, runes
LowerLetters ==
  <<"a","b","c","d","e","f","g","h","i","j","k","l","m",
    "n","o","p","q","r","s","t","u","v","w","x","y","z">>

UpperLetters ==
  <<"A","B","C","D","E","F","G","H","I","J","K","L","M",
    "N","O","P","Q","R","S","T","U","V","W","X","Y","Z">>

Digits == {"0","1","2","3","4","5","6","7","8","9"}

LowerSet == {LowerLetters[k] : k \in 1..26}
UpperSet == {UpperLetters[k] : k \in 1..26}

\* the upper-case letter of each lower-case letter, and back
UpperOf == [c \in LowerSet |-> UpperLetters[CHOOSE k \in 1..26 : LowerLetters[k] = c]]
LowerOf == [c \in UpperSet |-> LowerLetters[CHOOSE k \in 1..26 : UpperLetters[k] = c]]

IsLower(c) == c \in LowerSet
IsUpper(c) == c \in UpperSet
IsLetter(c) == IsLower(c) \/ IsUpper(c)

ToUpperRune(c) == IF IsLower(c) THEN UpperOf[c] ELSE c

ToLowerRune(c) == IF IsUpper(c) THEN LowerOf[c] ELSE c

\* strings.Title's word boundary: an ASCII rune that is no letter, digit or '_'
isSeparator(c) == ~(IsLetter(c) \/ c \in Digits \/ c = "_")

\* ------------------------------------------------------------ package strings
HasPrefix(s, p) == Len(s) >= Len(p) /\ SubSeq(s, 1, Len(p)) = p

HasSuffix(s, p) == Len(s) >= Len(p) /\ SubSeq(s, Len(s) - Len(p) + 1, Len(s)) = p

TrimSuffix(s, p) == IF HasSuffix(s, p) THEN SubSeq(s, 1, Len(s) - Len(p)) ELSE s

Contains(s, p) == \E i \in 1..(Len(s) - Len(p) + 1) : SubSeq(s, i, i + Len(p) - 1) = p

ToLower(s) == [i \in 1..Len(s) |-> ToLowerRune(s[i])]

\* strings.Title: upper-cases every rune that follows a separator (or starts s)
Title(s) ==
  [i \in 1..Len(s) |->
     IF i = 1 \/ isSeparator(s[i - 1]) THEN ToUpperRune(s[i]) ELSE s[i]]

RECURSIVE ReplaceAll(_, _, _)
ReplaceAll(s, old, new) ==
  IF s = <<>> THEN <<>>
  ELSE IF HasPrefix(s, old) THEN new \o ReplaceAll(SubSeq(s, Len(old) + 1, Len(s)), old, new)
  ELSE <<s[1]>> \o ReplaceAll(Tail(s), old, new)

\* strings.Split(s, "/"): always at least one (possibly empty) part
RECURSIVE Split(_)
Split(s) ==
  IF \A i \in 1..Len(s) : s[i] # "/" THEN <<s>>
  ELSE LET i == CHOOSE k \in 1..Len(s) : s[k] = "/" /\ \A m \in 1..(k - 1) : s[m] # "/"
       IN  <<SubSeq(s, 1, i - 1)>> \o Split(SubSeq(s, i + 1, Len(s)))

RECURSIVE Join(_, _)
Join(parts, sep) ==
  IF parts = <<>> THEN <<>>
  ELSE IF Len(parts) = 1 THEN parts[1]
  ELSE parts[1] \o sep \o Join(Tail(parts), sep)

SLASH == <<"/">>

\* --------------------------------------------------------- package filepath
\* separator is '/', so ToSlash changes nothing
ToSlash(p) == p

\* filepath.Ext: from the last '.' of the last path element, "" when none
Ext(p) ==
  LET dots == {i \in 1..Len(p) : p[i] = "." /\ \A k \in i..Len(p) : p[k] # "/"}
  IN  IF dots = {} THEN <<>>
      ELSE SubSeq(p, CHOOSE i \in dots : \A k \in dots : k <= i, Len(p))

RECURSIVE TrimTrailingSlashes(_)
TrimTrailingSlashes(p) ==
  IF p # <<>> /\ p[Len(p)] = "/" THEN TrimTrailingSlashes(SubSeq(p, 1, Len(p) - 1)) ELSE p

\* filepath.Base
Base(p) ==
  IF p = <<>> THEN <<".">>
  ELSE LET q == TrimTrailingSlashes(p)
           parts == Split(q)
           last == parts[Len(parts)]
       IN  IF last = <<>> THEN SLASH ELSE last

\* filepath.Clean on the parts of a path: drops "" and ".", lets ".." eat the
\* element before it (a rooted path drops a ".." at the root)
RECURSIVE CleanParts(_, _, _)
CleanParts(parts, acc, rooted) ==
  IF parts = <<>> THEN acc
  ELSE LET h == parts[1]
           t == Tail(parts)
       IN  IF h = <<>> \/ h = <<".">> THEN CleanParts(t, acc, rooted)
           ELSE IF h = <<".", ".">> THEN
                  IF acc # <<>> /\ acc[Len(acc)] # <<".", ".">>
                  THEN CleanParts(t, SubSeq(acc, 1, Len(acc) - 1), rooted)
                  ELSE IF rooted THEN CleanParts(t, acc, rooted)
                  ELSE CleanParts(t, Append(acc, h), rooted)
           ELSE CleanParts(t, Append(acc, h), rooted)

Clean(p) ==
  IF p = <<>> THEN <<".">>
  ELSE LET rooted == p[1] = "/"
           body == Join(CleanParts(Split(p), <<>>, rooted), SLASH)
       IN  IF rooted THEN SLASH \o body
           ELSE IF body = <<>> THEN <<".">> ELSE body

\* filepath.Join(a, b): the non-empty elements joined by '/', then cleaned
PathJoin(a, b) ==
  IF a = <<>> /\ b = <<>> THEN <<>>
  ELSE IF a = <<>> THEN Clean(b)
  ELSE IF b = <<>> THEN Clean(a)
  ELSE Clean(a \o SLASH \o b)

\* filepath.Dir: everything up to the last '/', cleaned
Dir(p) ==
  LET slashes == {i \in 1..Len(p) : p[i] = "/"}
  IN  IF slashes = {} THEN <<".">>
      ELSE Clean(SubSeq(p, 1, CHOOSE i \in slashes : \A k \in slashes : k <= i))

\* ------------------------------------------------------- environment, os.Expand
\* the variables of the process environment / .env file; any other name is unset
EnvNames == {<<"D">>}

\* D=b; an unset variable expands to ""
getEnv(key) == IF key \in EnvNames THEN <<"b">> ELSE <<>>

IsNameRune(c) == IsLetter(c) \/ c \in Digits \/ c = "_"

\* length of the longest run of name runes at the head of s
RECURSIVE NameLen(_)
NameLen(s) == IF s # <<>> /\ IsNameRune(s[1]) THEN 1 + NameLen(Tail(s)) ELSE 0

\* os.Expand(s, getEnv) for the $NAME form: a '$' followed by a run of letters,
\* digits and '_' is replaced by the variable's value, a '$' followed by
\* anything else is kept
RECURSIVE expandEnvVars(_)
expandEnvVars(s) ==
  IF s = <<>> THEN <<>>
  ELSE IF s[1] = "$" /\ NameLen(Tail(s)) > 0 THEN
         LET w == NameLen(Tail(s))
         IN  getEnv(SubSeq(s, 2, w + 1)) \o expandEnvVars(SubSeq(s, w + 2, Len(s)))
  ELSE <<s[1]>> \o expandEnvVars(Tail(s))

\* ------------------------------------------------------- identifier synthesis
IsWordBreak(c) == c \in {"-", "_", ".", "/"}

\* the loop of toPascalCase: the non-empty runs between '-', '_', '.', '/'
RECURSIVE PascalParts(_, _, _)
PascalParts(name, current, parts) ==
  IF name = <<>> THEN (IF current # <<>> THEN Append(parts, current) ELSE parts)
  ELSE IF IsWordBreak(name[1]) THEN
         PascalParts(Tail(name), <<>>,
                     IF current # <<>> THEN Append(parts, current) ELSE parts)
  ELSE PascalParts(Tail(name), Append(current, name[1]), parts)

RECURSIVE ConcatTitled(_)
ConcatTitled(parts) ==
  IF parts = <<>> THEN <<>> ELSE Title(ToLower(parts[1])) \o ConcatTitled(Tail(parts))

toPascalCase(name) == ConcatTitled(PascalParts(name, <<>>, <<>>))

SNAKE == <<"s","n","a","k","e">>
PASCAL == <<"p","a","s","c","a","l">>

toGoVarName(name, naming) ==
  LET stem == TrimSuffix(name, Ext(name))
  IN  IF naming = SNAKE
      THEN Title(ReplaceAll(ReplaceAll(stem, <<"-">>, <<"_">>), <<".">>, <<"_">>))
      ELSE toPascalCase(stem)

\* ------------------------------------------------------- resolveUniquePaths
\* strings.Join(parts[startIdx:], "/") with startIdx = max(len(parts)-depth, 0)
SuffixAt(parts, depth) ==
  LET startIdx == IF Len(parts) - depth < 0 THEN 0 ELSE Len(parts) - depth
  IN  Join(SubSeq(parts, startIdx + 1, Len(parts)), SLASH)

\* nameCount[f.shortName]: the indices of the files named like files[i]
nameCount(files, i) == {j \in 1..Len(files) : files[j].shortName = files[i].shortName}

\* strings.Split(f.sourcePath, "/") of every file
RECURSIVE sourceParts(_)
sourceParts(files) ==
  IF files = <<>> THEN <<>> ELSE <<Split(files[1].sourcePath)>> \o sourceParts(Tail(files))

\* PathIsUnique gone wrong: compared with the members already processed only
PathIsUnique_EarlierPeers(files, parts, i, depth) ==
  LET candidatePath == SuffixAt(parts[i], depth)
  IN  \A otherIdx \in {j \in nameCount(files, i) : j < i} :
        SuffixAt(parts[otherIdx], depth) # candidatePath

\* isUnique of resolveUniquePaths for member i at one depth
PathIsUnique(files, parts, i, depth) ==
  LET candidatePath == SuffixAt(parts[i], depth)
  IN  \A otherIdx \in nameCount(files, i) \ {i} :
        SuffixAt(parts[otherIdx], depth) # candidatePath

\* the depths the loop of resolveUniquePaths tries for member i
PathDepths(parts, i) == 1..Len(parts[i])

\* UniquePathOf gone wrong: falls back to the file name, not the full path
UniquePathOf_FallbackShortName(files, parts, i) ==
  LET f == files[i]
      ok == {d \in PathDepths(parts, i) : PathIsUnique(files, parts, i, d)}
      found == IF ok = {} THEN <<>>
               ELSE SuffixAt(parts[i], CHOOSE d \in ok : \A e \in ok : d <= e)
  IN  IF Cardinality(nameCount(files, i)) = 1 THEN f.shortName
      ELSE IF found = <<>> THEN f.shortName
      ELSE found

\* result[i] of resolveUniquePaths
UniquePathOf(files, parts, i) ==
  LET f == files[i]
      ok == {d \in PathDepths(parts, i) : PathIsUnique(files, parts, i, d)}
      found == IF ok = {} THEN <<>>
               ELSE SuffixAt(parts[i], CHOOSE d \in ok : \A e \in ok : d <= e)
  IN  IF Cardinality(nameCount(files, i)) = 1 THEN f.shortName
      ELSE IF found = <<>> THEN f.sourcePath
      ELSE found

\* resolveUniquePaths gone wrong: the results come back in reverse order
resolveUniquePaths_Reversed(files) ==
  LET parts == sourceParts(files)
  IN  [i \in 1..Len(files) |-> UniquePathOf(files, parts, Len(files) + 1 - i)]

resolveUniquePaths(files) ==
  LET parts == sourceParts(files)
  IN  [i \in 1..Len(files) |-> UniquePathOf(files, parts, i)]

\* ------------------------------------------------------- resolveUniqueVarNames
\* the candidate built from the rightmost depth parts, extension cut from the last
VarCandidate(pathParts, depth, naming) ==
  LET startIdx == IF Len(pathParts) - depth < 0 THEN 0 ELSE Len(pathParts) - depth
      rel == SubSeq(pathParts, startIdx + 1, Len(pathParts))
      lastPart == TrimSuffix(rel[Len(rel)], Ext(rel[Len(rel)]))
      relevantParts == [rel EXCEPT ![Len(rel)] = lastPart]
      prefixParts == [j \in 1..(Len(relevantParts) - 1) |-> Title(relevantParts[j])]
      basePart == ReplaceAll(ReplaceAll(lastPart, <<"-">>, <<"_">>), <<".">>, <<"_">>)
  IN  IF naming = SNAKE
      THEN IF Len(prefixParts) > 0
           THEN Join(prefixParts, <<"_">>) \o <<"_">> \o basePart
           ELSE Title(basePart)
      ELSE toPascalCase(Join(relevantParts, SLASH))

baseName(p, naming) == toGoVarName(Base(p), naming)

\* the first pass: baseNames[i] for every path
RECURSIVE baseNamesOf(_, _)
baseNamesOf(paths, naming) ==
  IF paths = <<>> THEN <<>>
  ELSE <<baseName(paths[1], naming)>> \o baseNamesOf(Tail(paths), naming)

\* strings.Split(filepath.ToSlash(p), "/") of every path
RECURSIVE pathParts(_)
pathParts(paths) ==
  IF paths = <<>> THEN <<>> ELSE <<Split(ToSlash(paths[1]))>> \o pathParts(Tail(paths))

\* nameToIndices[baseNames[i]]: the indices of the paths with the base name of paths[i]
nameToIndices(baseNames, i) == {j \in 1..Len(baseNames) : baseNames[j] = baseNames[i]}

\* isUnique of resolveUniqueVarNames for member i at one depth
VarIsUnique(parts, indices, naming, i, depth) ==
  LET candidate == VarCandidate(parts[i], depth, naming)
  IN  \A otherIdx \in indices \ {i} : VarCandidate(parts[otherIdx], depth, naming) # candidate

\* the depths the loop of resolveUniqueVarNames tries for member i
VarDepths(parts, i) == 2..Len(parts[i])

\* UniqueVarNameOf gone wrong: a path alone in its group is deepened too
UniqueVarNameOf_AlwaysDeepen(parts, baseNames, naming, i) ==
  LET indices == nameToIndices(baseNames, i)
      ok == {d \in VarDepths(parts, i) : VarIsUnique(parts, indices, naming, i, d)}
  IN  IF ok # {}
      THEN VarCandidate(parts[i], CHOOSE d \in ok : \A e \in ok : d <= e, naming)
      ELSE baseNames[i]

\* result[i] of resolveUniqueVarNames
UniqueVarNameOf(parts, baseNames, naming, i) ==
  LET indices == nameToIndices(baseNames, i)
      ok == {d \in VarDepths(parts, i) : VarIsUnique(parts, indices, naming, i, d)}
  IN  IF Cardinality(indices) > 1 /\ ok # {}
      THEN VarCandidate(parts[i], CHOOSE d \in ok : \A e \in ok : d <= e, naming)
      ELSE baseNames[i]

resolveUniqueVarNames(paths, naming) ==
  LET baseNames == baseNamesOf(paths, naming)
      parts == pathParts(paths)
  IN  [i \in 1..Len(paths) |-> UniqueVarNameOf(parts, baseNames, naming, i)]

\* ------------------------------------------------------- main: fileInfo
HTTP == <<"h","t","t","p",":","/","/">>
HTTPS == <<"h","t","t","p","s",":","/","/">>

IsURL(s) == HasPrefix(s, HTTP) \/ HasPrefix(s, HTTPS)

\* the fileInfo main builds for one entry of cfg.Files
MakeFileInfo(fileURL) ==
  LET expandedURL == expandEnvVars(fileURL)
      parts == Split(expandedURL)
  IN  IF IsURL(expandedURL)
      THEN [originalURL |-> fileURL, expandedURL |-> expandedURL,
            sourcePath |-> IF Len(parts) > 3
                           THEN Join(SubSeq(parts, 4, Len(parts)), SLASH)
                           ELSE parts[Len(parts)],
            shortName |-> parts[Len(parts)]]
      ELSE [originalURL |-> fileURL, expandedURL |-> expandedURL,
            sourcePath |-> ToSlash(expandedURL),
            shortName |-> Base(expandedURL)]

\* ------------------------------------------------------- inputs
\* local file references "x", "a/x", "b/x", "a/b/x", "x.t", "a/x.t"
PlainPaths ==
  {<<"x">>, <<"a", "/", "x">>, <<"b", "/", "x">>, <<"a", "/", "b", "/", "x">>,
   <<"x", ".", "t">>, <<"a", "/", "x", ".", "t">>}

\* "c/b/x" and "q/a_b/x": told apart from "a/b/x" only by an outer directory
DeepPaths == {<<"c", "/", "b", "/", "x">>, <<"q", "/", "a", "_", "b", "/", "x">>}

\* a directory-style reference "a/x/" and a dot-file ".t"
OddPaths == {<<"a", "/", "x", "/">>, <<".", "t">>}

\* "$D/x": a reference through the environment
EnvPaths == {<<"$", "D", "/", "x">>}

GITHUB_COM == <<"g","i","t","h","u","b",".","c","o","m">>
GITHUBUSERCONTENT_COM == <<"g","i","t","h","u","b","u","s","e","r","c","o","n","t","e","n","t",".","c","o","m">>

\* remote references: the same path "a/x" on the hosts "h", "github.com.g"
\* and "github.com"
UrlEntries ==
  {HTTP \o <<"h", "/", "a", "/", "x">>,
   HTTPS \o GITHUB_COM \o <<".", "g", "/", "a", "/", "x">>,
   HTTPS \o GITHUB_COM \o <<"/", "a", "/", "x">>}

\* what a manifest may list; "b/x" is listed through the environment, as "$D/x"
Entries == (PlainPaths \ {<<"b", "/", "x">>}) \cup OddPaths \cup EnvPaths \cup UrlEntries

\* what a caller may hand to a disambiguator
CallPaths == PlainPaths \cup DeepPaths \cup OddPaths

\* every list of at most n elements of S
RECURSIVE ListsUpTo(_, _)
ListsUpTo(S, n) ==
  IF n = 0 THEN {<<>>}
  ELSE ListsUpTo(S, n - 1) \cup {Append(l, e) : l \in {m \in ListsUpTo(S, n - 1) : Len(m) = n - 1}, e \in S}

Namings == {PASCAL, SNAKE}

\* cfg.Output as written in the manifest ("" stands for the default ".")
SHORT_NAME == <<"<","s","h","o","r","t","_","n","a","m","e",">">>
Outputs == {<<>>, <<"o", "/">> \o SHORT_NAME}

\* cfg.GithubToken: none, or the token "T"
Tokens == {<<>>, <<"T">>}

\* the working directory of the run
cwd == <<"/", "w">>

\* ------------------------------------------------------- state
VARIABLES
  cfgFiles,     \* cfg.Files; the input list of a disambiguator call
  cfgVarNaming, \* cfg.VarNaming; the naming argument
  cfgOutput,    \* cfg.Output
  cfgGithubToken, \* cfg.GithubToken after expansion ("" when none is configured)
  pc,           \* where main is
  fileInfos,    \* main's fileInfos
  uniquePaths,  \* main's uniquePaths
  embedInfos,   \* main's embedInfos, one per materialized file
  embedVars,    \* main's embedVars: the directive path and the variable name
  disk,         \* output files: absolute path -> what was written there
  embedGo,      \* the generated source as written: <<>> until then
  steps,        \* the I/O-visible steps of main so far, in order
  called,       \* which disambiguators a caller has applied to cfgFiles
  outPaths,     \* what resolveUniquePaths returned to that caller
  outNames,     \* what resolveUniqueVarNames returned to that caller
  requests,     \* the HTTP requests main has handed to the client, in order
  synth         \* what a synthesizer returned to its caller, per call

vars == <<cfgFiles, cfgVarNaming, cfgOutput, cfgGithubToken, pc, fileInfos, uniquePaths,
          embedInfos, embedVars, disk, embedGo, steps, called, outPaths, outNames,
          requests, synth>>

cfgVars == <<cfgFiles, cfgVarNaming, cfgOutput, cfgGithubToken>>
callVars == <<called, outPaths, outNames, synth>>

NoFile == <<>>

\* ------------------------------------------------------- main
\* main after embed.yaml was parsed
Init ==
  /\ cfgFiles \in ListsUpTo(Entries, MaxFiles)
  /\ cfgVarNaming \in Namings
  /\ cfgOutput \in Outputs
  /\ cfgGithubToken \in Tokens
  /\ pc = "config"
  /\ fileInfos = <<>>
  /\ uniquePaths = <<>>
  /\ embedInfos = <<>>
  /\ embedVars = <<>>
  /\ disk = <<>>
  /\ embedGo = NoFile
  /\ steps = <<>>
  /\ called = {}
  /\ outPaths = <<>>
  /\ outNames = <<>>
  /\ requests = <<>>
  /\ synth = <<>>

\* "No files specified in embed.yaml"
NoFiles ==
  /\ pc = "config"
  /\ Len(cfgFiles) = 0
  /\ pc' = "exit1"
  /\ UNCHANGED <<cfgVars, fileInfos, uniquePaths, embedInfos, embedVars, disk, embedGo,
                 steps, callVars, requests>>

\* the first loop: expand every entry and take its source path and short name
BuildFileInfos ==
  /\ pc = "config"
  /\ Len(cfgFiles) > 0
  /\ fileInfos' = [i \in 1..Len(cfgFiles) |-> MakeFileInfo(cfgFiles[i])]
  /\ pc' = "resolve"
  /\ UNCHANGED <<cfgVars, uniquePaths, embedInfos, embedVars, disk, embedGo, steps, callVars, requests>>

ResolvePaths ==
  /\ pc = "resolve"
  /\ uniquePaths' = resolveUniquePaths(fileInfos)
  /\ steps' = Append(steps, <<"resolve">>)
  /\ pc' = "materialize"
  /\ UNCHANGED <<cfgVars, fileInfos, embedInfos, embedVars, disk, embedGo, callVars, requests>>

outDir == IF cfgOutput = <<>> THEN <<".">> ELSE cfgOutput

\* the directory file i goes to, relative to cwd
fullOutPath(fi, uniquePath) ==
  LET outPath == ReplaceAll(outDir, SHORT_NAME, TrimSuffix(fi.shortName, Ext(fi.shortName)))
  IN  IF uniquePath # fi.shortName THEN PathJoin(outPath, Dir(uniquePath)) ELSE outPath

localFile(fi, uniquePath) == PathJoin(PathJoin(cwd, fullOutPath(fi, uniquePath)), fi.shortName)

\* cfg.GoOutput is embed.go, so the directive path is the path relative to cwd
relEmbedPath(fi, uniquePath) == ToSlash(PathJoin(fullOutPath(fi, uniquePath), fi.shortName))

\* the next file of the download/copy loop
NextFile == Len(embedInfos) + 1

WriteDisk(path, content) ==
  [p \in DOMAIN disk \cup {path} |-> IF p = path THEN content ELSE disk[p]]

NoHeader == <<>>

\* the GET request main builds for a remote entry
NewRequest(fi) ==
  [url |-> fi.expandedURL,
   authorization |->
     IF cfgGithubToken # <<>> /\ (Contains(fi.expandedURL, GITHUB_COM)
                                  \/ Contains(fi.expandedURL, GITHUBUSERCONTENT_COM))
     THEN <<"Bearer", cfgGithubToken>>
     ELSE NoHeader]

\* the request log once http.DefaultClient.Do was reached for entry fi
Sent(fi) == IF IsURL(fi.expandedURL) THEN Append(requests, NewRequest(fi)) ELSE requests

\* a local reference to a directory cannot be copied, and a remote one with
\* an empty short name has the output directory itself as its localFile
CanMaterialize(fi) ==
  /\ fi.expandedURL # <<>>
  /\ fi.expandedURL[Len(fi.expandedURL)] # "/"

\* Materialize gone wrong: the embedInfo is put in front of the earlier ones
Materialize_Prepend ==
  /\ pc = "materialize"
  /\ NextFile <= Len(fileInfos)
  /\ CanMaterialize(fileInfos[NextFile])
  /\ LET i == NextFile
         fi == fileInfos[i]
         up == uniquePaths[i]
     IN  /\ disk' = WriteDisk(localFile(fi, up), <<"bytes", i>>)
         /\ requests' = Sent(fi)
         /\ embedInfos' = <<[relEmbedPath |-> relEmbedPath(fi, up), uniquePath |-> up]>>
                            \o embedInfos
         /\ steps' = Append(steps, <<"materialize", i>>)
  /\ UNCHANGED <<cfgVars, pc, fileInfos, uniquePaths, embedVars, embedGo, callVars>>

\* one iteration of the loop: the file is fetched or copied to localFile
Materialize ==
  /\ pc = "materialize"
  /\ NextFile <= Len(fileInfos)
  /\ CanMaterialize(fileInfos[NextFile])
  /\ LET i == NextFile
         fi == fileInfos[i]
         up == uniquePaths[i]
     IN  /\ disk' = WriteDisk(localFile(fi, up), <<"bytes", i>>)
         /\ requests' = Sent(fi)
         /\ embedInfos' = Append(embedInfos,
                                 [relEmbedPath |-> relEmbedPath(fi, up), uniquePath |-> up])
         /\ steps' = Append(steps, <<"materialize", i>>)
  /\ UNCHANGED <<cfgVars, pc, fileInfos, uniquePaths, embedVars, embedGo, callVars>>

\* one iteration that fails before the output file exists (MkdirAll, the
\* request, the status, opening the source, os.Create): exit status 1; a
\* remote entry fails before or after its request was sent
MaterializeFails ==
  /\ pc = "materialize"
  /\ NextFile <= Len(fileInfos)
  /\ requests' \in {requests, Sent(fileInfos[NextFile])}
  /\ pc' = "exit1"
  /\ UNCHANGED <<cfgVars, fileInfos, uniquePaths, embedInfos, embedVars, disk, embedGo,
                 steps, callVars>>

\* CopyFails gone wrong: the failure is reported and the loop goes on
CopyFails_Continues ==
  /\ pc = "materialize"
  /\ NextFile <= Len(fileInfos)
  /\ fileInfos[NextFile].shortName # <<>>
  /\ LET i == NextFile
         fi == fileInfos[i]
         up == uniquePaths[i]
     IN  /\ disk' = WriteDisk(localFile(fi, up), <<"partial", i>>)
         /\ embedInfos' = Append(embedInfos,
                                 [relEmbedPath |-> relEmbedPath(fi, up), uniquePath |-> up])
  /\ requests' = Sent(fileInfos[NextFile])
  /\ UNCHANGED <<cfgVars, pc, fileInfos, uniquePaths, embedVars, embedGo, steps, callVars>>

\* one iteration whose io.Copy fails: os.Create has truncated localFile
CopyFails ==
  /\ pc = "materialize"
  /\ NextFile <= Len(fileInfos)
  /\ fileInfos[NextFile].shortName # <<>>
  /\ LET i == NextFile IN disk' = WriteDisk(localFile(fileInfos[i], uniquePaths[i]), <<"partial", i>>)
  /\ requests' = Sent(fileInfos[NextFile])
  /\ pc' = "exit1"
  /\ UNCHANGED <<cfgVars, fileInfos, uniquePaths, embedInfos, embedVars, embedGo, steps,
                 callVars>>

\* the variable name main gives one embedInfo
VarNameOf(uniquePath, naming) ==
  IF naming = SNAKE THEN toGoVarName(uniquePath, SNAKE)
  ELSE toPascalCase(TrimSuffix(uniquePath, Ext(uniquePath)))

\* GenerateVarNames gone wrong: it does not wait for the last file
GenerateVarNames_Early ==
  /\ pc = "materialize"
  /\ embedVars' = [k \in 1..Len(embedInfos) |->
                     [path |-> embedInfos[k].relEmbedPath,
                      varName |-> VarNameOf(embedInfos[k].uniquePath, cfgVarNaming)]]
  /\ steps' = Append(steps, <<"names">>)
  /\ pc' = "write"
  /\ UNCHANGED <<cfgVars, fileInfos, uniquePaths, embedInfos, disk, embedGo, callVars, requests>>

\* the second loop: a directive and a variable per embedInfo
GenerateVarNames ==
  /\ pc = "materialize"
  /\ NextFile > Len(fileInfos)
  /\ embedVars' = [k \in 1..Len(embedInfos) |->
                     [path |-> embedInfos[k].relEmbedPath,
                      varName |-> VarNameOf(embedInfos[k].uniquePath, cfgVarNaming)]]
  /\ steps' = Append(steps, <<"names">>)
  /\ pc' = "write"
  /\ UNCHANGED <<cfgVars, fileInfos, uniquePaths, embedInfos, disk, embedGo, callVars, requests>>

\* os.WriteFile of the generated source
WriteEmbedGo ==
  /\ pc = "write"
  /\ embedGo' = embedVars
  /\ steps' = Append(steps, <<"write">>)
  /\ pc' = "done"
  /\ UNCHANGED <<cfgVars, fileInfos, uniquePaths, embedInfos, embedVars, disk, callVars, requests>>

WriteFails ==
  /\ pc = "write"
  /\ pc' = "exit1"
  /\ UNCHANGED <<cfgVars, fileInfos, uniquePaths, embedInfos, embedVars, disk, embedGo,
                 steps, callVars, requests>>

Next ==
  \/ NoFiles
  \/ BuildFileInfos
  \/ ResolvePaths
  \/ Materialize
  \/ MaterializeFails
  \/ CopyFails
  \/ GenerateVarNames
  \/ WriteEmbedGo
  \/ WriteFails

Spec == Init /\ [][Next]_vars

\* ------------------------------------------------------- the disambiguators, called directly
\* a caller holds a list of paths and a naming and has called neither function
InitCall ==
  /\ cfgFiles \in ListsUpTo(CallPaths, MaxFiles)
  /\ cfgVarNaming \in Namings
  /\ cfgOutput = <<>>
  /\ cfgGithubToken = <<>>
  /\ pc = "caller"
  /\ fileInfos = [i \in 1..Len(cfgFiles) |-> MakeFileInfo(cfgFiles[i])]
  /\ uniquePaths = <<>>
  /\ embedInfos = <<>>
  /\ embedVars = <<>>
  /\ disk = <<>>
  /\ embedGo = NoFile
  /\ steps = <<>>
  /\ called = {}
  /\ outPaths = <<>>
  /\ outNames = <<>>
  /\ requests = <<>>
  /\ synth = <<>>

CallResolveUniquePaths ==
  /\ pc = "caller"
  /\ "paths" \notin called
  /\ outPaths' = resolveUniquePaths(fileInfos)
  /\ called' = called \cup {"paths"}
  /\ UNCHANGED <<cfgVars, pc, fileInfos, uniquePaths, embedInfos, embedVars, disk, embedGo,
                 steps, outNames, requests, synth>>

CallResolveUniqueVarNames ==
  /\ pc = "caller"
  /\ "names" \notin called
  /\ outNames' = resolveUniqueVarNames(cfgFiles, cfgVarNaming)
  /\ called' = called \cup {"names"}
  /\ UNCHANGED <<cfgVars, pc, fileInfos, uniquePaths, embedInfos, embedVars, disk, embedGo,
                 steps, outPaths, requests, synth>>

NextCall == CallResolveUniquePaths \/ CallResolveUniqueVarNames

SpecCall == InitCall /\ [][NextCall]_vars

\* ------------------------------------------------------- the synthesizers, called directly
\* the runes a name is made of: letters of both cases, a digit, the four
\* word breaks and a blank
SynthRunes == {"a", "B", "1", "-", "_", ".", "/", " "}

SynthNames == ListsUpTo(SynthRunes, MaxNameLen) \ {<<>>}

\* the naming argument: "pascal", "snake" or the empty string
SynthNamings == Namings \cup {<<>>}

\* the path segments resolveUniqueVarNames works on
SegmentsOf(p) == Split(ToSlash(p))

\* a caller holds one name and a naming and has called no synthesizer
InitSynth ==
  /\ cfgFiles \in {<<n>> : n \in SynthNames}
  /\ cfgVarNaming \in SynthNamings
  /\ cfgOutput = <<>>
  /\ cfgGithubToken = <<>>
  /\ pc = "synth"
  /\ fileInfos = <<>>
  /\ uniquePaths = <<>>
  /\ embedInfos = <<>>
  /\ embedVars = <<>>
  /\ disk = <<>>
  /\ embedGo = NoFile
  /\ steps = <<>>
  /\ called = {}
  /\ outPaths = <<>>
  /\ outNames = <<>>
  /\ requests = <<>>
  /\ synth = {}

CallToGoVarName ==
  /\ pc = "synth"
  /\ \A r \in synth : r.fn # "toGoVarName"
  /\ synth' = synth \cup {[fn |-> "toGoVarName", depth |-> 0,
                            out |-> toGoVarName(cfgFiles[1], cfgVarNaming)]}
  /\ UNCHANGED <<cfgVars, pc, fileInfos, uniquePaths, embedInfos, embedVars, disk, embedGo,
                 steps, called, outPaths, outNames, requests>>

\* the candidate the depth loop of resolveUniqueVarNames builds at depth d
CallVarCandidate ==
  /\ pc = "synth"
  /\ \E d \in 2..Len(SegmentsOf(cfgFiles[1])) :
        /\ \A r \in synth : ~(r.fn = "candidate" /\ r.depth = d)
        /\ synth' = synth \cup {[fn |-> "candidate", depth |-> d,
                                  out |-> VarCandidate(SegmentsOf(cfgFiles[1]), d, cfgVarNaming)]}
  /\ UNCHANGED <<cfgVars, pc, fileInfos, uniquePaths, embedInfos, embedVars, disk, embedGo,
                 steps, called, outPaths, outNames, requests>>

NextSynth == CallToGoVarName \/ CallVarCandidate

SpecSynth == InitSynth /\ [][NextSynth]_vars

\* ================================================================= claims
\* the parts of the source path of input i
PartsOf(i) == Split(fileInfos[i].sourcePath)

\* resolveUniquePaths has answered: main is past it, or a caller has called it
PathsOut ==
  IF pc = "caller" THEN (IF "paths" \in called THEN outPaths ELSE <<>>) ELSE uniquePaths

PathsDone == Len(fileInfos) > 0 /\ Len(PathsOut) = Len(fileInfos)

\* C1: two references with the same shortName and different sourcePaths never
\* get the same output path from resolveUniquePaths
C1_DistinctOutputPaths ==
  "paths" \in called =>
    \A i, j \in 1..Len(fileInfos) :
      (/\ i # j
       /\ fileInfos[i].shortName = fileInfos[j].shortName
       /\ fileInfos[i].sourcePath # fileInfos[j].sourcePath)
      => outPaths[i] # outPaths[j]

\* C1 witness: three references of one shortName, of one, two and three
\* segments, have been resolved
C1_Witness ==
  /\ "paths" \in called
  /\ \E i, j, k \in 1..Len(fileInfos) :
       /\ fileInfos[i].shortName = fileInfos[j].shortName
       /\ fileInfos[j].shortName = fileInfos[k].shortName
       /\ Len(PartsOf(i)) = 1 /\ Len(PartsOf(j)) = 2 /\ Len(PartsOf(k)) = 3
       /\ outPaths[i] # outPaths[j] /\ outPaths[j] # outPaths[k]

\* the variable names of the generated source, in order
WrittenNames == [k \in 1..Len(embedGo) |-> embedGo[k].varName]

\* C2: in the generated source no two declarations have the same name when
\* the source paths of the manifest's entries are pairwise different
C2_NoDuplicateDeclarations ==
  (/\ pc = "done"
   /\ \A i, j \in 1..Len(fileInfos) :
        i # j => fileInfos[i].sourcePath # fileInfos[j].sourcePath)
  => \A i, j \in 1..Len(embedGo) : i # j => WrittenNames[i] # WrittenNames[j]

\* C3: two different paths with the same base identifier never get the same
\* name from resolveUniqueVarNames
C3_DistinctVarNames ==
  "names" \in called =>
    \A i, j \in 1..Len(cfgFiles) :
      (/\ cfgFiles[i] # cfgFiles[j]
       /\ baseName(cfgFiles[i], cfgVarNaming) = baseName(cfgFiles[j], cfgVarNaming))
      => outNames[i] # outNames[j]

\* C4: a name with no usable characters aborts the run: the generated source
\* is never written with an empty variable name in it
C4_NoEmptyIdentifierWritten ==
  embedGo # NoFile => \A k \in 1..Len(embedGo) : WrittenNames[k] # <<>>

IsIdentRune(c) == IsLetter(c) \/ c \in Digits \/ c = "_"

\* C5: every variable name of the generated source is made of letters, digits
\* and '_' only and does not begin with a digit
C5_ValidIdentifiers ==
  embedGo # NoFile =>
    \A k \in 1..Len(embedGo) :
      /\ \A n \in 1..Len(WrittenNames[k]) : IsIdentRune(WrittenNames[k][n])
      /\ WrittenNames[k] # <<>> => WrittenNames[k][1] \notin Digits

\* the peers of i: the other references with its shortName
PeersOf(i) == {j \in 1..Len(fileInfos) : j # i /\ fileInfos[j].shortName = fileInfos[i].shortName}

\* the rightmost d segments of the source path of i (all of it when it has fewer)
RightmostOf(i, d) ==
  LET parts == PartsOf(i)
      n == IF d < Len(parts) THEN d ELSE Len(parts)
  IN  Join(SubSeq(parts, Len(parts) - n + 1, Len(parts)), SLASH)

DistinctAt(i, d) == \A j \in PeersOf(i) : RightmostOf(i, d) # RightmostOf(j, d)

\* the most segments any reference has
MostParts ==
  LET lens == {Len(PartsOf(i)) : i \in 1..Len(fileInfos)}
  IN  CHOOSE n \in lens : \A m \in lens : m <= n

\* C6: a member of a group of two or more gets its rightmost d segments for
\* the smallest depth d >= 1 at which they differ from every peer's
C6_DepthMinimal ==
  PathsDone =>
    \A i \in 1..Len(fileInfos) :
      PeersOf(i) # {} =>
        \A d \in 1..MostParts :
          (DistinctAt(i, d) /\ \A e \in 1..(d - 1) : ~DistinctAt(i, e))
          => PathsOut[i] = RightmostOf(i, d)

\* the other paths with the base identifier of path i
NamePeersOf(i) ==
  LET mine == baseName(cfgFiles[i], cfgVarNaming)
  IN  {j \in 1..Len(cfgFiles) : j # i /\ baseName(cfgFiles[j], cfgVarNaming) = mine}

\* C7: a reference nobody shares its shortName with gets exactly shortName, a
\* path nobody shares its base identifier with gets exactly the base identifier
C7_SingletonTrivial ==
  /\ "paths" \in called =>
       \A i \in 1..Len(fileInfos) : PeersOf(i) = {} => outPaths[i] = fileInfos[i].shortName
  /\ "names" \in called =>
       \A i \in 1..Len(cfgFiles) :
         NamePeersOf(i) = {} =>
           outNames[i] = toGoVarName(Base(cfgFiles[i]), cfgVarNaming)

\* C7 witness: both functions have answered a list that holds a singleton
\* of several segments next to a group of two
C7_Witness ==
  /\ called = {"paths", "names"}
  /\ \E i, j \in 1..Len(fileInfos) :
       /\ PeersOf(i) = {} /\ NamePeersOf(i) = {} /\ Len(PartsOf(i)) > 1
       /\ PeersOf(j) # {} /\ NamePeersOf(j) # {}

\* the values resolveUniquePaths can give input i: its shortName or a suffix
PathCandidates(i) == {fileInfos[i].shortName} \cup {RightmostOf(i, d) : d \in 1..Len(PartsOf(i))}

\* the values resolveUniqueVarNames can give input i: its base identifier or
\* the identifier of a suffix
NameCandidates(i) ==
  {baseName(cfgFiles[i], cfgVarNaming)}
    \cup {VarCandidate(Split(cfgFiles[i]), d, cfgVarNaming) : d \in 2..Len(Split(cfgFiles[i]))}

\* C8: each function returns a list as long as its input whose i-th element
\* is derived from the i-th input
C8_LengthAndOrder ==
  /\ "paths" \in called =>
       /\ Len(outPaths) = Len(fileInfos)
       /\ \A i \in 1..Len(fileInfos) : outPaths[i] \in PathCandidates(i)
  /\ "names" \in called =>
       /\ Len(outNames) = Len(cfgFiles)
       /\ \A i \in 1..Len(cfgFiles) : outNames[i] \in NameCandidates(i)

\* C8 witness: both functions have answered a list of three different results
C8_Witness ==
  /\ called = {"paths", "names"}
  /\ Len(cfgFiles) = 3
  /\ outPaths[1] # outPaths[2] /\ outPaths[2] # outPaths[3] /\ outPaths[1] # outPaths[3]
  /\ outNames[1] # outNames[2] /\ outNames[2] # outNames[3] /\ outNames[1] # outNames[3]

\* list l reordered by permutation f
Reordered(l, f) == [i \in 1..Len(l) |-> l[f[i]]]

\* C9: on a reordered input each function returns its results reordered the
\* same way
C9_OrderIndependent ==
  called = {"paths", "names"} =>
    \A f \in Permutations(1..Len(cfgFiles)) :
      /\ resolveUniquePaths(Reordered(fileInfos, f)) = Reordered(outPaths, f)
      /\ resolveUniqueVarNames(Reordered(cfgFiles, f), cfgVarNaming) = Reordered(outNames, f)

\* C9 witness: both functions have answered a group of three members that
\* get three different depths
C9_Witness ==
  /\ called = {"paths", "names"}
  /\ Len(cfgFiles) = 3
  /\ \A i \in 1..3 : Cardinality(PeersOf(i)) = 2 /\ Cardinality(NamePeersOf(i)) = 2
  /\ Cardinality({Len(Split(outPaths[i])) : i \in 1..3}) = 3

\* the steps of a complete run over n files
RunOf(n) ==
  <<<<"resolve">>>> \o [i \in 1..n |-> <<"materialize", i>>] \o <<<<"names">>, <<"write">>>>

\* C10: paths are resolved once and before any file is materialized, files are
\* materialized one at a time in manifest order, names are computed after
\* the last file, and the generated source is written last
C10_StepOrder ==
  /\ Len(steps) <= Len(RunOf(Len(cfgFiles)))
  /\ steps = SubSeq(RunOf(Len(cfgFiles)), 1, Len(steps))
  /\ DOMAIN disk # {} => Len(uniquePaths) = Len(cfgFiles)
  /\ embedVars # <<>> => Len(embedInfos) = Len(cfgFiles)
  /\ embedGo # NoFile => embedVars # <<>>

\* C10 witness: a run over three files has written the generated source
C10_Witness == pc = "done" /\ Len(cfgFiles) = 3 /\ Len(steps) = 6

\* ------------------------------------------------------- C11
\* the name a synthesizer was called on, without its extension
SynthStem == TrimSuffix(cfgFiles[1], Ext(cfgFiles[1]))

\* the fragments of s between '-', '_', '.', '/', each lower-cased with its
\* first rune upper-cased, concatenated; atStart says a fragment begins
RECURSIVE WordCase(_, _)
WordCase(s, atStart) ==
  IF s = <<>> THEN <<>>
  ELSE IF s[1] \in {"-", "_", ".", "/"} THEN WordCase(Tail(s), TRUE)
  ELSE <<IF atStart THEN ToUpperRune(s[1]) ELSE ToLowerRune(s[1])>> \o WordCase(Tail(s), FALSE)

\* the same, taking "first letter" to be the first rune that is a letter
RECURSIVE WordCaseLetter(_, _)
WordCaseLetter(s, atStart) ==
  IF s = <<>> THEN <<>>
  ELSE IF s[1] \in {"-", "_", ".", "/"} THEN WordCaseLetter(Tail(s), TRUE)
  ELSE IF atStart /\ IsLetter(s[1]) THEN <<ToUpperRune(s[1])>> \o WordCaseLetter(Tail(s), FALSE)
  ELSE <<ToLowerRune(s[1])>> \o WordCaseLetter(Tail(s), atStart)

RECURSIVE Underscored(_)
Underscored(s) ==
  IF s = <<>> THEN <<>>
  ELSE <<IF s[1] \in {"-", "."} THEN "_" ELSE s[1]>> \o Underscored(Tail(s))

\* s with its first rune upper-cased and nothing else changed
FirstUpper(s) == IF s = <<>> THEN <<>> ELSE <<ToUpperRune(s[1])>> \o Tail(s)

\* C12: with the naming "snake", toGoVarName returns the extension-stripped
\* name with '-' and '.' replaced by '_' and only the first character of the
\* whole string upper-cased; a character after '/' or another non-letter is
\* left as it is
C12_SeparatedCase ==
  \A r \in synth :
    (r.fn = "toGoVarName" /\ cfgVarNaming = SNAKE) => r.out = FirstUpper(Underscored(SynthStem))

\* ------------------------------------------------------- C13
\* the identifier synthesized from the rightmost d segments of path i (from
\* all of them when it has fewer)
NameAt(i, d) == VarCandidate(SegmentsOf(cfgFiles[i]), d, cfgVarNaming)

NameDistinctAt(i, d) == \A j \in NamePeersOf(i) : NameAt(i, d) # NameAt(j, d)

\* the identifiers of path i that include a directory segment
DeepNames(i) == {NameAt(i, d) : d \in 2..Len(SegmentsOf(cfgFiles[i]))}

\* C13: a member of a group of two or more paths of one base identifier
\* gets the identifier of its rightmost d segments for the smallest d >= 2
\* at which it differs from every peer's identifier at depth d, and so an
\* identifier that includes a directory segment when its path has two or
\* more segments
C13_SmallestDepthFromTwo ==
  "names" \in called =>
    \A i \in 1..Len(cfgFiles) :
      NamePeersOf(i) # {} =>
        /\ \A d \in 2..MostParts :
             (NameDistinctAt(i, d) /\ \A e \in 2..(d - 1) : ~NameDistinctAt(i, e))
             => outNames[i] = NameAt(i, d)
        /\ Len(SegmentsOf(cfgFiles[i])) >= 2 => outNames[i] \in DeepNames(i)

\* ------------------------------------------------------- C14
\* the rightmost d segments of the name a synthesizer was called on
SynthRightmost(d) ==
  LET parts == SegmentsOf(cfgFiles[1])
      n == IF d < Len(parts) THEN d ELSE Len(parts)
  IN  SubSeq(parts, Len(parts) - n + 1, Len(parts))

\* the directory segments, each with its first letter capitalised, joined
\* by '_', then '_' and the extension-stripped final segment lower-cased
\* with '-' and '.' replaced by '_'
SeparatedCandidate(d) ==
  LET rel == SynthRightmost(d)
      last == rel[Len(rel)]
      dirs == [j \in 1..(Len(rel) - 1) |-> FirstUpper(rel[j])]
  IN  Join(dirs, <<"_">>) \o <<"_">> \o ToLower(Underscored(TrimSuffix(last, Ext(last))))

\* C14: under snake naming the candidate at depth d is the d-1 directory
\* segments, each capitalised in its first letter, joined by '_', followed
\* by '_' and the lower-cased, extension-stripped final segment with '-' and
\* '.' replaced by '_'
C14_SnakeCandidate ==
  \A r \in synth :
    (r.fn = "candidate" /\ cfgVarNaming = SNAKE) => r.out = SeparatedCandidate(r.depth)

\* ------------------------------------------------------- C15
\* no depth up to the member's own segment count tells it from its peers
NoPathDepth(i) == PeersOf(i) # {} /\ \A d \in 1..Len(PartsOf(i)) : ~DistinctAt(i, d)
NoNameDepth(i) ==
  NamePeersOf(i) # {} /\ \A d \in 2..Len(SegmentsOf(cfgFiles[i])) : ~NameDistinctAt(i, d)

\* C15: a member that no depth up to its own segment count tells from its
\* peers gets its longest candidate: its full sourcePath from
\* resolveUniquePaths, the identifier of its full path from
\* resolveUniqueVarNames
C15_LongestCandidateFallback ==
  /\ "paths" \in called =>
       \A i \in 1..Len(fileInfos) : NoPathDepth(i) => outPaths[i] = fileInfos[i].sourcePath
  /\ "names" \in called =>
       \A i \in 1..Len(cfgFiles) :
         NoNameDepth(i) => outNames[i] = NameAt(i, Len(SegmentsOf(cfgFiles[i])))

\* ------------------------------------------------------- C16
\* the last '/'-separated segment of s
LastSegment(s) == LET parts == Split(s) IN parts[Len(parts)]

\* C16: every fileInfo main builds has a non-empty shortName that is the
\* last '/'-separated segment of its sourcePath, also for an entry that
\* ends in '/'
C16_ShortNameEndsSourcePath ==
  \A i \in 1..Len(fileInfos) :
    /\ fileInfos[i].shortName # <<>>
    /\ LastSegment(fileInfos[i].sourcePath) = fileInfos[i].shortName

\* ------------------------------------------------------- C17
\* the directive and the declaration main is to write for entry i
PairOf(i) ==
  [path |-> relEmbedPath(fileInfos[i], uniquePaths[i]),
   varName |-> VarNameOf(uniquePaths[i], cfgVarNaming)]

\* the file the directive of the i-th pair of the generated source names
EmbeddedFile(i) == PathJoin(cwd, embedGo[i].path)

\* C17: the generated source of a successful run holds exactly one directive
\* and one declaration per manifest entry, in manifest order: the i-th pair
\* is the one for the i-th entry and names the file written for it
C17_OnePairPerEntry ==
  embedGo # NoFile =>
    /\ pc = "done"
    /\ Len(embedGo) = Len(cfgFiles)
    /\ \A i \in 1..Len(cfgFiles) :
         /\ embedGo[i] = PairOf(i)
         /\ EmbeddedFile(i) = localFile(fileInfos[i], uniquePaths[i])
         /\ EmbeddedFile(i) \in DOMAIN disk

\* C17 witness: the source of a successful run over three entries holds
\* three pairs with three different directives and three different names
C17_Witness ==
  /\ pc = "done"
  /\ Len(embedGo) = 3
  /\ Cardinality({embedGo[i].path : i \in 1..3}) = 3
  /\ Cardinality({embedGo[i].varName : i \in 1..3}) = 3

\* ------------------------------------------------------- C18
\* the expanded references of the manifest are pairwise different
DifferentReferences ==
  \A i, j \in 1..Len(fileInfos) : i # j => fileInfos[i].expandedURL # fileInfos[j].expandedURL

\* C18: after a successful run over pairwise different references the file
\* each entry's directive names holds the bytes materialized for that entry:
\* no later entry has overwritten it
C18_NoOutputOverwritten ==
  (pc = "done" /\ DifferentReferences) =>
    \A i \in 1..Len(cfgFiles) : disk[EmbeddedFile(i)] = <<"bytes", i>>

\* ------------------------------------------------------- C19
\* the host of a request URL: what stands between "://" and the next '/'
HostOf(url) == Split(url)[3]

\* h is domain or a subdomain of it
InDomain(h, domain) == h = domain \/ HasSuffix(h, <<".">> \o domain)

\* C19: a request carries the token as its Authorization header only when
\* its host is github.com or githubusercontent.com or a subdomain of one
C19_TokenOnlyToGithubHosts ==
  \A k \in 1..Len(requests) :
    requests[k].authorization # NoHeader =>
      \/ InDomain(HostOf(requests[k].url), GITHUB_COM)
      \/ InDomain(HostOf(requests[k].url), GITHUBUSERCONTENT_COM)

\* ------------------------------------------------------- C20
\* the output file of entry i
OutputFile(i) == localFile(fileInfos[i], uniquePaths[i])

\* main has exited because a step of the download/copy loop failed for
\* entry NextFile
FailedAtEntry == pc = "exit1" /\ fileInfos # <<>> /\ embedVars = <<>>

\* the output files of the entries 1..n, in manifest order
RECURSIVE OutputFiles(_)
OutputFiles(n) == IF n = 0 THEN <<>> ELSE Append(OutputFiles(n - 1), OutputFile(n))

\* the last of the entries 1..n that wrote the file files[i]
LastWriter(files, n, i) ==
  CHOOSE j \in 1..n : files[j] = files[i] /\ \A m \in (j + 1)..n : files[m] # files[i]

\* C20: when a step of an entry fails main exits with status 1 at that
\* entry: no later entry is materialized and no source is generated, while
\* the output files of the earlier entries stay on disk, untouched unless
\* the failing entry was writing that very file; a source is generated only
\* over files that were copied whole
C20_ExitAtFailedEntry ==
  /\ FailedAtEntry =>
       /\ NextFile <= Len(cfgFiles)
       /\ embedGo = NoFile
       /\ steps = SubSeq(RunOf(Len(cfgFiles)), 1, NextFile)
       /\ LET files == OutputFiles(NextFile)
              done == Len(embedInfos)
          IN  /\ DOMAIN disk \subseteq {files[i] : i \in 1..NextFile}
              /\ \A i \in 1..done :
                   /\ files[i] \in DOMAIN disk
                   /\ files[i] # files[NextFile] =>
                        disk[files[i]] = <<"bytes", LastWriter(files, done, i)>>
  /\ embedGo # NoFile => \A p \in DOMAIN disk : disk[p][1] = "bytes"

\* C20 witness: the second of three entries has failed while its bytes were
\* copied: the run is over, the first entry's file is whole, the second's
\* is partial, the third was never started and no source was generated
C20_Witness ==
  /\ pc = "exit1"
  /\ Len(cfgFiles) = 3
  /\ Len(embedInfos) = 1
  /\ disk[OutputFile(1)] = <<"bytes", 1>>
  /\ OutputFile(2) \in DOMAIN disk /\ disk[OutputFile(2)] = <<"partial", 2>>
  /\ OutputFile(3) \notin DOMAIN disk
  /\ embedGo = NoFile

\* ------------------------------------------------------- C21
\* the caller's fileInfos are the ones the claim builds from a path: the
\* path as sourcePath and its last segment as shortName
PlainFileInfos ==
  \A i \in 1..Len(fileInfos) :
    /\ fileInfos[i].sourcePath = cfgFiles[i]
    /\ fileInfos[i].shortName = LastSegment(cfgFiles[i])

\* the name main derives from a result of resolveUniquePaths under pascal
MainNameOf(uniquePath) == VarNameOf(uniquePath, PASCAL)

\* C21: under pascal naming the names main derives from the results of
\* resolveUniquePaths equal, element by element, the names
\* resolveUniqueVarNames returns for the same list of paths
C21_NamingPathsAgree ==
  (called = {"paths", "names"} /\ cfgVarNaming = PASCAL /\ PlainFileInfos) =>
    \A i \in 1..Len(cfgFiles) : MainNameOf(outPaths[i]) = outNames[i]

====
